---- MODULE Spec2Model ----
(***************************************************************************)
(* RegistrationStorage (src/save_registration_updated.js): a collection of *)
(* registration records kept as one JSON array under one localStorage key. *)
(*                                                                         *)
(* JavaScript values are encoded as tagged tuples so that values of        *)
(* different JavaScript types never compare equal:                         *)
(*   <<"s", x>>      a string                                              *)
(*   <<"n", ms, f>>  the number ms + f/2 (a millisecond clock value plus a *)
(*                   fraction, as Date.now() + Math.random() gives)        *)
(*   <<"T", ms>>     the ISO-8601 text of the instant ms (toISOString)     *)
(*   <<"u">>         undefined                                             *)
(*   <<"circ">>      a value JSON.stringify cannot serialise (a cycle)     *)
(* An object is a function from its own enumerable keys to values.  An     *)
(* array element that is not an object is a function with the single key   *)
(* "$prim".  A text (a localStorage value, a file's content) is a record   *)
(* [kind, items]: what the text is, and the elements when it holds an      *)
(* array.                                                                  *)
(***************************************************************************)
EXTENDS Integers, Sequences, FiniteSets, TLC

\* ------------------------------------------------------------------ bounds
MaxTime == 1     \* the clock runs over 0..MaxTime milliseconds
MaxCalls == 2    \* calls made on the store in one run

\* ------------------------------------------------------------------ values
Str(s) == <<"s", s>>
Num(ms, f) == <<"n", ms, f>>
Undefined == <<"u">>
Circular == <<"circ">>
EmptyObj == [k \in {} |-> Undefined]

PrimNull == [k \in {"$prim"} |-> Str("null")]
PrimStr == [k \in {"$prim"} |-> Str("s")]
IsPrim(v) == "$prim" \in DOMAIN v
IsObject(v) == ~IsPrim(v)

\* Date.prototype.toISOString of the instant ms.
toISOString(ms) == <<"T", ms>>

\* What Math.random() can give, in halves: 0 (and every value so small that
\* adding it to a clock value rounds back to the clock value) and 1/2.
RandomValues == {0, 1}

\* Date.now() + Math.random().
AddRandom(ms, f) == Num(ms, f)

\* obj[k]: the value of a property, undefined when the object has none.
Get(obj, k) == IF k \in DOMAIN obj THEN obj[k] ELSE Undefined

\* { ...a, ...b }: b's own keys over a's.
Merge(a, b) ==
    [k \in (DOMAIN a) \cup (DOMAIN b) |-> IF k \in DOMAIN b THEN b[k] ELSE a[k]]

\* { ...v }: the own enumerable keys of v; null and numbers have none, a
\* string has its characters under their indices.
SpreadIdentity(v) == v
Spread(v) ==
    IF IsObject(v) THEN v
    ELSE IF v = PrimStr THEN [k \in {"0"} |-> Str("s")]
    ELSE EmptyObj

\* -------------------------------------------------------------------- JSON
Text(kind, items) == [kind |-> kind, items |-> items]
Absent == Text("absent", <<>>)
ArrayText(items) == Text("array", items)

JSValue(t, elems) == [t |-> t, elems |-> elems]
EmptyArr == JSValue("array", <<>>)

\* JSON.parse: throws on text that is not JSON (ok = FALSE), and otherwise
\* gives the value the text denotes: an array, an object with a registrations
\* array ("wrapped"), another object, a number, or null.
JSONparse(text) ==
    IF text.kind \in {"garbage", "empty", "absent", "unreadable"}
    THEN [ok |-> FALSE, val |-> JSValue("null", <<>>)]
    ELSE [ok |-> TRUE, val |-> JSValue(text.kind, text.items)]

\* JSON.stringify of one array element: a property whose value is undefined
\* is left out.
StringifyElem(e) == [k \in {f \in DOMAIN e : e[f] # Undefined} |-> e[k]]

\* JSON.stringify throws on a cyclic value.
StringifyThrows(arr) ==
    \E i \in DOMAIN arr : \E k \in DOMAIN arr[i] : arr[i][k] = Circular

\* JSON.stringify of an array.
JSONstringify(arr) == ArrayText([i \in DOMAIN arr |-> StringifyElem(arr[i])])

\* ----------------------------------------------------------------- storage
\* How localStorage behaves during one call:
\*   "ok"      every access works
\*   "quota"   setItem throws QuotaExceededError, reads and removeItem work
\*   "denied"  every access throws SecurityError
Modes == {"ok", "quota", "denied"}

\* getAllRegistrations: the parsed stored value, [] when nothing is stored,
\* when getItem throws, or when the stored text does not parse.
getAllRegistrations(st, mode) ==
    IF mode = "denied" THEN EmptyArr
    ELSE IF st.kind \in {"absent", "empty"} THEN EmptyArr
    ELSE LET p == JSONparse(st) IN IF p.ok THEN p.val ELSE EmptyArr

\* reg.id of an array element; evaluating it throws on null.
IdThrows(e) == e = PrimNull
IdOf(e) == IF IsPrim(e) THEN Undefined ELSE Get(e, "id")

\* Array.prototype.findIndex(reg => reg.id === id), 1-based; 0 when no
\* element matches.
FindIndex(elems, id) ==
    IF \E i \in DOMAIN elems : IdOf(elems[i]) = id
    THEN CHOOSE i \in DOMAIN elems :
            /\ IdOf(elems[i]) = id
            /\ \A j \in 1..(i - 1) : IdOf(elems[j]) # id
    ELSE 0

\* The scan of findIndex/find throws when it meets null before a match.
FindThrows(elems, id) ==
    LET i == FindIndex(elems, id)
        upto == IF i = 0 THEN Len(elems) ELSE i
    IN \E j \in 1..upto : IdThrows(elems[j])

\* Array.prototype.filter(reg => reg.id !== id).
RECURSIVE Filter(_, _)
Filter(elems, id) ==
    IF elems = <<>> THEN <<>>
    ELSE LET rest == Filter(Tail(elems), id)
         IN IF IdOf(Head(elems)) # id THEN <<Head(elems)>> \o rest ELSE rest

FilterThrows(elems) == \E j \in DOMAIN elems : IdThrows(elems[j])

\* getRegistrationById: the first record with the id, or null; the call
\* throws when the stored value is not an array.
NullResult == [k \in {"$prim"} |-> Str("null")]
getRegistrationById(st, id, mode) ==
    LET regs == getAllRegistrations(st, mode)
    IN IF regs.t # "array" \/ FindThrows(regs.elems, id)
       THEN [thrown |-> TRUE, val |-> NullResult]
       ELSE LET i == FindIndex(regs.elems, id)
            IN [thrown |-> FALSE,
                val |-> IF i = 0 THEN NullResult ELSE regs.elems[i]]

\* -------------------------------------------------------------- operations
\* What a call gives back: its return value, whether it raised alert(),
\* whether a storage access or a (de)serialisation threw inside it, the text
\* under the storage key afterwards, and the index it wrote at (update) or
\* appended after (import).
Result(ret, alerted, raised, store, idx) ==
    [ret |-> ret, alerted |-> alerted, raised |-> raised, store |-> store,
     idx |-> idx]

\* downloadAllRegistrations: alerts and returns false when nothing is stored;
\* it reads the store and never writes it.
downloadAllRegistrations(st, mode) ==
    LET all == getAllRegistrations(st, mode)
    IN IF all.t = "array" /\ Len(all.elems) = 0
       THEN [ret |-> FALSE, alerted |-> TRUE]
       ELSE [ret |-> TRUE, alerted |-> FALSE]

\* The record saveToJSON stores: the form data with id, submittedAt and
\* version laid over it.
DataWithMetadata(data, now) ==
    Merge(data, [id |-> Num(now, 0),
                 submittedAt |-> toISOString(now),
                 version |-> Str("1.0")])

\* saveToJSON(data) at clock value now.
saveToJSON(st, data, now, mode) ==
    LET all == getAllRegistrations(st, mode)
        pushed == Append(all.elems, DataWithMetadata(data, now))
    IN IF all.t # "array" \/ StringifyThrows(pushed) \/ mode # "ok"
       THEN Result(FALSE, TRUE, TRUE, st, 0)
       ELSE LET written == JSONstringify(pushed)
            IN Result(TRUE, downloadAllRegistrations(written, mode).alerted,
                      FALSE, written, Len(pushed))

\* The record updateRegistration writes at the index it found.
UpdatedRecordNoSpread(reg, upd, now) ==
    Merge(upd, [updatedAt |-> toISOString(now)])
UpdatedRecordStampFirst(reg, upd, now) ==
    Merge(Merge(reg, [updatedAt |-> toISOString(now)]), upd)
UpdatedRecord(reg, upd, now) ==
    Merge(Merge(reg, upd), [updatedAt |-> toISOString(now)])

\* updateRegistration(id, updatedData) at clock value now.
updateRegistration(st, id, upd, now, mode) ==
    LET regs == getAllRegistrations(st, mode)
    IN IF regs.t # "array" \/ FindThrows(regs.elems, id)
       THEN Result(FALSE, FALSE, TRUE, st, 0)
       ELSE LET index == FindIndex(regs.elems, id)
            IN IF index = 0
               THEN Result(FALSE, TRUE, mode = "denied", st, 0)
               ELSE LET new == [regs.elems EXCEPT
                                  ![index] = UpdatedRecord(@, upd, now)]
                    IN IF StringifyThrows(new) \/ mode # "ok"
                       THEN Result(FALSE, FALSE, TRUE, st, 0)
                       ELSE Result(TRUE, FALSE, FALSE, JSONstringify(new), index)

\* deleteRegistration(id).
deleteRegistrationWriteFirst(st, id, mode) ==
    LET regs == getAllRegistrations(st, mode)
    IN IF regs.t # "array" \/ FilterThrows(regs.elems) \/ mode # "ok"
       THEN Result(FALSE, FALSE, TRUE, st, 0)
       ELSE LET filtered == Filter(regs.elems, id)
            IN IF Len(regs.elems) = Len(filtered)
               THEN Result(FALSE, TRUE, FALSE, JSONstringify(filtered), 0)
               ELSE Result(TRUE, FALSE, FALSE, JSONstringify(filtered), 0)
deleteRegistration(st, id, mode) ==
    LET regs == getAllRegistrations(st, mode)
    IN IF regs.t # "array" \/ FilterThrows(regs.elems)
       THEN Result(FALSE, FALSE, TRUE, st, 0)
       ELSE LET filtered == Filter(regs.elems, id)
            IN IF Len(regs.elems) = Len(filtered)
               THEN Result(FALSE, TRUE, mode = "denied", st, 0)
               ELSE IF mode # "ok"
                    THEN Result(FALSE, FALSE, TRUE, st, 0)
                    ELSE Result(TRUE, FALSE, FALSE, JSONstringify(filtered), 0)

\* clearAllRegistrations(): confirmed is what confirm() answered.
clearAllRegistrations(st, confirmed, mode) ==
    IF ~confirmed THEN Result(FALSE, FALSE, FALSE, st, 0)
    ELSE IF mode = "denied" THEN Result(FALSE, FALSE, TRUE, st, 0)
    ELSE Result(TRUE, FALSE, FALSE, Absent, 0)

\* importFromJSON, after `await file.text()`: the records the file holds.
\* ok = FALSE when the read rejects, the text does not parse, or the value
\* is neither an array nor an object with a registrations array (reading
\* .registrations of null throws as well).
registrationsToImport(file) ==
    LET p == JSONparse(file)
    IN IF p.ok /\ p.val.t \in {"array", "wrapped"}
       THEN [ok |-> TRUE, regs |-> p.val.elems]
       ELSE [ok |-> FALSE, regs |-> <<>>]

\* One imported record: the element's own keys with a fresh id and
\* importedAt laid over them; f is what Math.random() gave.
ImportedRecord(reg, now, f) ==
    Merge(Spread(reg), [id |-> AddRandom(now, f),
                        importedAt |-> toISOString(now)])

\* `const existing = this.getAllRegistrations()`: read when the file read
\* has resolved (st), not when importFromJSON was called (atCall).
ImportExistingAtCall(atCall, st, mode) == getAllRegistrations(atCall, mode)
ImportExisting(atCall, st, mode) == getAllRegistrations(st, mode)

\* The rest of importFromJSON once the file read has resolved; rnd[i] is
\* what Math.random() gave for the i-th record.
importFromJSON(atCall, st, file, rnd, now, mode) ==
    LET r == registrationsToImport(file)
        existing == ImportExisting(atCall, st, mode)
    IN IF ~r.ok \/ existing.t # "array"
       THEN Result(FALSE, TRUE, TRUE, st, 0)
       ELSE LET merged == existing.elems \o
                    [i \in DOMAIN r.regs |-> ImportedRecord(r.regs[i], now, rnd[i])]
            IN IF StringifyThrows(merged) \/ mode # "ok"
               THEN Result(FALSE, TRUE, TRUE, st, 0)
               ELSE Result(TRUE, TRUE, FALSE, JSONstringify(merged),
                           Len(existing.elems))

\* ------------------------------------------------------------------- state
VARIABLES
    stored,   \* the text under the key 'all_registrations'
    now,      \* the clock Date.now() reads
    pending,  \* importFromJSON calls suspended at `await file.text()`: for
              \* each, (history) the stored text when the call was made
    calls     \* how many calls have been made (a run makes at most MaxCalls)

vars == <<stored, now, pending, calls>>

\* ------------------------------------------------------------------ inputs
\* Form data handed to saveToJSON.
FormData ==
    { [name |-> Str("a")], [name |-> Circular] }

\* updatedData handed to updateRegistration.
UpdateData ==
    { [name |-> Undefined],
      [name |-> Circular],
      [id |-> Num(0, 0)],
      [submittedAt |-> toISOString(0)],
      [updatedAt |-> toISOString(0)] }

\* What `await file.text()` can give importFromJSON.
FileWrapped == Text("wrapped", <<[name |-> Str("c"), id |-> Num(0, 0)]>>)
FilePrims == ArrayText(<<PrimNull, PrimStr>>)
FileEmptyArray == ArrayText(<<>>)
FileObject == Text("object", <<>>)
FileNull == Text("null", <<>>)
FileGarbage == Text("garbage", <<>>)
FileUnreadable == Text("unreadable", <<>>)
Files ==
    { FileWrapped, FilePrims, FileEmptyArray,
      FileObject, FileNull, FileGarbage, FileUnreadable }

\* An id no record carries.
AbsentId == Num(MaxTime + 2, 0)

\* The ids a caller can name: those of the stored records, and one of none.
KnownIds == { IdOf(stored.items[i]) : i \in DOMAIN stored.items } \cup {AbsentId}

\* The calls that can be made in the current state, and what each gives.
SaveCalls == [data : FormData, mode : Modes]
SaveResult(c) == saveToJSON(stored, c.data, now, c.mode)

UpdateCalls == [id : KnownIds, upd : UpdateData, mode : Modes]
UpdateResult(c) == updateRegistration(stored, c.id, c.upd, now, c.mode)

DeleteCalls == [id : KnownIds, mode : Modes]
DeleteResult(c) == deleteRegistration(stored, c.id, c.mode)

ClearCalls == [confirmed : BOOLEAN, mode : Modes]
ClearResult(c) == clearAllRegistrations(stored, c.confirmed, c.mode)

\* The suspended imports that can resume: which one, what its file read
\* gave, and what Math.random() gives for each record.
ImportCalls ==
    UNION { [i : {i}, file : {file}, mode : Modes,
             rnd : [1..Len(registrationsToImport(file).regs) -> RandomValues]]
            : i \in DOMAIN pending, file \in Files }
ImportResult(c) ==
    importFromJSON(pending[c.i], stored, c.file, c.rnd, now, c.mode)

\* ----------------------------------------------------------------- actions
Init ==
    /\ stored = Absent
    /\ now = 0
    /\ pending = <<>>
    /\ calls = 0

\* The clock advances.
Tick ==
    /\ now < MaxTime
    /\ now' = now + 1
    /\ UNCHANGED <<stored, pending, calls>>

Create ==
    \E c \in SaveCalls :
        /\ calls < MaxCalls
        /\ calls' = calls + 1
        /\ stored' = SaveResult(c).store
        /\ UNCHANGED <<now, pending>>

Update ==
    \E c \in UpdateCalls :
        /\ calls < MaxCalls
        /\ calls' = calls + 1
        /\ stored' = UpdateResult(c).store
        /\ UNCHANGED <<now, pending>>

Delete ==
    \E c \in DeleteCalls :
        /\ calls < MaxCalls
        /\ calls' = calls + 1
        /\ stored' = DeleteResult(c).store
        /\ UNCHANGED <<now, pending>>

Clear ==
    \E c \in ClearCalls :
        /\ calls < MaxCalls
        /\ calls' = calls + 1
        /\ stored' = ClearResult(c).store
        /\ UNCHANGED <<now, pending>>

\* importFromJSON(file) is called and suspends at `await file.text()`.
ImportCall ==
    /\ calls < MaxCalls
    /\ calls' = calls + 1
    /\ pending' = Append(pending, stored)
    /\ UNCHANGED <<stored, now>>

\* The file read of a suspended import resolves with the file's text (or
\* rejects) and the call runs to its end.
ImportResolve ==
    \E c \in ImportCalls :
        /\ stored' = ImportResult(c).store
        /\ pending' = [j \in 1..(Len(pending) - 1) |->
                          IF j < c.i THEN pending[j] ELSE pending[j + 1]]
        /\ UNCHANGED <<now, calls>>

Next ==
    \/ Tick
    \/ Create
    \/ Update
    \/ Delete
    \/ Clear
    \/ ImportCall
    \/ ImportResolve

Spec == Init /\ [][Next]_vars

\* The stored value may also have been left by something else: an object, a
\* number, null, text that is not JSON, the empty string.
ForeignTexts ==
    { Absent, Text("object", <<>>), Text("number", <<>>), Text("null", <<>>),
      Text("garbage", <<>>), Text("empty", <<>>) }

InitForeign ==
    /\ stored \in ForeignTexts
    /\ now = 0
    /\ pending = <<>>
    /\ calls = 0

SpecForeign == InitForeign /\ [][Next]_vars

\* ------------------------------------------------------------------ claims
Items == stored.items
HasId(id) == \E i \in DOMAIN Items : IdOf(Items[i]) = id

\* C1: with working storage, deleteRegistration(id) returns true and removes
\* exactly one record when some stored record has the id, and returns false
\* and leaves the stored value as it was when none has.
C1_DeleteRemovesExactlyOne ==
    \A id \in KnownIds :
        LET r == deleteRegistration(stored, id, "ok")
        IN IF HasId(id)
           THEN r.ret /\ Len(r.store.items) = Len(Items) - 1
           ELSE ~r.ret /\ r.store = stored

\* C2: when saveToJSON(data) returns true, getRegistrationById of the id it
\* assigned finds the record just appended, and that record carries the
\* data's fields with id, submittedAt and version "1.0".
C2_CreateThenReadById ==
    \A c \in SaveCalls :
        LET r == SaveResult(c)
            g == getRegistrationById(r.store, Num(now, 0), "ok")
        IN r.ret =>
            /\ ~g.thrown
            /\ FindIndex(r.store.items, Num(now, 0)) = Len(r.store.items)
            /\ \A k \in (DOMAIN c.data) \ {"id", "submittedAt", "version"} :
                   Get(g.val, k) = c.data[k]
            /\ Get(g.val, "id") = Num(now, 0)
            /\ Get(g.val, "submittedAt") = toISOString(now)
            /\ Get(g.val, "version") = Str("1.0")

\* If the call that gave res returned true, it left the submittedAt of every
\* stored record that has one as it was.
SubmittedAtKept(res) ==
    LET r == res
    IN r.ret =>
        \A i \in DOMAIN Items :
            "submittedAt" \in DOMAIN Items[i] =>
                /\ i \in DOMAIN r.store.items
                /\ Get(r.store.items[i], "submittedAt") = Items[i].submittedAt

\* C3 as claimed: no successful update, create or import changes the
\* submittedAt of a stored record.
C3_SubmittedAtImmutable ==
    /\ \A c \in UpdateCalls : SubmittedAtKept(UpdateResult(c))
    /\ \A c \in SaveCalls : SubmittedAtKept(SaveResult(c))
    /\ \A c \in ImportCalls : SubmittedAtKept(ImportResult(c))

\* C3 as amended: no successful create or import, and no successful update
\* whose updatedData does not name submittedAt, changes the submittedAt of a
\* stored record.
C3_SubmittedAtKeptUnlessNamed ==
    /\ \A c \in UpdateCalls :
           "submittedAt" \notin DOMAIN c.upd => SubmittedAtKept(UpdateResult(c))
    /\ \A c \in SaveCalls : SubmittedAtKept(SaveResult(c))
    /\ \A c \in ImportCalls : SubmittedAtKept(ImportResult(c))

\* A record created at time 0 has been updated at time 1, with updatedData
\* that does not name submittedAt, and is still stored.
C3_Witness ==
    \E i \in DOMAIN Items :
        /\ Get(Items[i], "id") = Num(0, 0)
        /\ "name" \notin DOMAIN Items[i]
        /\ Get(Items[i], "submittedAt") = toISOString(0)
        /\ Get(Items[i], "updatedAt") = toISOString(1)

\* What a successful update leaves alone: the fields of the record it wrote
\* that are neither named in updatedData nor updatedAt, every other record,
\* the length and the order.
UpdateFrame(c, r) ==
    /\ r.idx \in DOMAIN Items
    /\ IdOf(Items[r.idx]) = c.id
    /\ Len(r.store.items) = Len(Items)
    /\ \A j \in DOMAIN Items : j # r.idx => r.store.items[j] = Items[j]
    /\ Get(r.store.items[r.idx], "updatedAt") = toISOString(now)
    /\ \A k \in (DOMAIN Items[r.idx] \cup DOMAIN r.store.items[r.idx])
                    \ (DOMAIN c.upd \cup {"updatedAt"}) :
           Get(r.store.items[r.idx], k) = Get(Items[r.idx], k)

\* C4 as claimed: a successful update leaves the record with every field of
\* updatedData at the supplied value and updatedAt at the time of the update,
\* and changes nothing else.
C4_UpdateMergesSupplied ==
    \A c \in UpdateCalls :
        LET r == UpdateResult(c)
        IN r.ret =>
            /\ UpdateFrame(c, r)
            /\ \A k \in DOMAIN c.upd : Get(r.store.items[r.idx], k) = c.upd[k]

\* C4 as amended: a successful update leaves the record with every field of
\* updatedData other than updatedAt at the supplied value and updatedAt at the
\* time of the update, and changes nothing else.
C4_UpdateMergesSuppliedButUpdatedAt ==
    \A c \in UpdateCalls :
        LET r == UpdateResult(c)
        IN r.ret =>
            /\ UpdateFrame(c, r)
            /\ \A k \in (DOMAIN c.upd) \ {"updatedAt"} :
                   Get(r.store.items[r.idx], k) = c.upd[k]

\* Two records are stored, and an update that names updatedAt with another
\* time than the clock's succeeds.
C4_Witness ==
    /\ Len(Items) >= 2
    /\ \E c \in UpdateCalls :
           /\ UpdateResult(c).ret
           /\ "updatedAt" \in DOMAIN c.upd
           /\ c.upd.updatedAt # toISOString(now)

\* C5: a successful import of n records into m stored ones leaves m + n
\* records, the first m as they were, each of the last n with importedAt
\* and an id no record stored before carries.
C5_ImportAppendsWithFreshIds ==
    \A c \in ImportCalls :
        LET r == ImportResult(c)
            n == Len(registrationsToImport(c.file).regs)
            m == Len(Items)
        IN r.ret =>
            /\ Len(r.store.items) = m + n
            /\ \A i \in 1..m : r.store.items[i] = Items[i]
            /\ \A j \in (m + 1)..(m + n) :
                   /\ "importedAt" \in DOMAIN r.store.items[j]
                   /\ \A i \in 1..m : IdOf(r.store.items[j]) # IdOf(Items[i])

\* A call in which something threw returned false and raised an alert.
FailureNotified(res) == LET r == res IN r.raised => (~r.ret /\ r.alerted)

\* C6: every failure inside create, update, delete, clear-all or import ends
\* in a false return and a notification to the user.
C6_FailuresNotified ==
    /\ \A c \in SaveCalls : FailureNotified(SaveResult(c))
    /\ \A c \in UpdateCalls : FailureNotified(UpdateResult(c))
    /\ \A c \in DeleteCalls : FailureNotified(DeleteResult(c))
    /\ \A c \in ClearCalls : FailureNotified(ClearResult(c))
    /\ \A c \in ImportCalls : FailureNotified(ImportResult(c))

\* A call that returned false left the stored text as it was.
NoWriteOnFalse(res) == LET r == res IN ~r.ret => r.store = stored

\* C7: whenever create, update, delete, clear-all or import returns false,
\* the value under the storage key is what it was before the call.
C7_FalseMeansNoWrite ==
    /\ \A c \in SaveCalls : NoWriteOnFalse(SaveResult(c))
    /\ \A c \in UpdateCalls : NoWriteOnFalse(UpdateResult(c))
    /\ \A c \in DeleteCalls : NoWriteOnFalse(DeleteResult(c))
    /\ \A c \in ClearCalls : NoWriteOnFalse(ClearResult(c))
    /\ \A c \in ImportCalls : NoWriteOnFalse(ImportResult(c))

\* Records are stored, an import is suspended, and calls of every kind
\* return false: a create and an update whose setItem throws, a delete of an
\* absent id, a delete that cannot write, a declined clear, an import of a
\* file that does not parse.
C7_Witness ==
    /\ Len(Items) >= 1
    /\ \E c \in SaveCalls : c.mode = "quota" /\ ~SaveResult(c).ret
    /\ \E c \in UpdateCalls : HasId(c.id) /\ c.mode = "quota" /\ ~UpdateResult(c).ret
    /\ \E c \in DeleteCalls : ~HasId(c.id) /\ ~DeleteResult(c).ret
    /\ \E c \in DeleteCalls : HasId(c.id) /\ ~DeleteResult(c).ret
    /\ \E c \in ClearCalls : ~c.confirmed /\ ~ClearResult(c).ret
    /\ \E c \in ImportCalls : c.file = FileGarbage /\ ~ImportResult(c).ret

\* C8: getAllRegistrations gives the empty array whenever the stored value
\* is absent, is not JSON, or is JSON but not an array.
C8_ReadAllEmptyUnlessArray ==
    stored.kind # "array" =>
        \A mode \in Modes : getAllRegistrations(stored, mode) = EmptyArr

\* C9: starting with nothing stored, the stored value is always either
\* absent or an array whose every element is an object.
C9_StoredIsArrayOfObjects ==
    /\ stored.kind \in {"absent", "array"}
    /\ \A i \in DOMAIN Items : IsObject(Items[i])

\* A record imported from an array element that was a string is stored.
C9_Witness == \E i \in DOMAIN Items : "0" \in DOMAIN Items[i]

====
